---- MODULE Spec2Model ----
(***************************************************************************)
(* The dose engine of the DLI calculator: calculate_dli of src/app.py and  *)
(* the METHODS catalogue it reads.                                         *)
(*                                                                         *)
(* Numbers.  The code computes in binary floating point.  The model        *)
(* computes the same expressions, in the same order, in exact rational     *)
(* arithmetic: a number is a record [n, d] in lowest terms with d > 0.     *)
(* d = 0 stands for the IEEE values a numpy float64 division by zero       *)
(* yields: [n |-> 1, d |-> 0] is inf, [n |-> -1, d |-> 0] is -inf and      *)
(* [n |-> 0, d |-> 0] is nan.  Where a formatted value lies exactly        *)
(* half way between two printed values the binary rounding error of the    *)
(* computation decides the digit; the model leaves that digit open.        *)
(***************************************************************************)
EXTENDS Integers, FiniteSets, Sequences, TLC

VARIABLES dose, dose_type, recipient_weight, donor_tlc, lymph_percent,
          donor_hct, method, measured_cd3, pc, result, prev

vars == <<dose, dose_type, recipient_weight, donor_tlc, lymph_percent,
          donor_hct, method, measured_cd3, pc, result, prev>>

----------------------------------------------------------------------------
(* Exact rational arithmetic                                               *)

Abs(x) == IF x < 0 THEN -x ELSE x

Sign(x) == IF x < 0 THEN -1 ELSE IF x > 0 THEN 1 ELSE 0

RECURSIVE GCD(_, _)
GCD(a, b) == IF b = 0 THEN a ELSE GCD(b, a % b)

R(n, d) ==
    IF d = 0 THEN [n |-> Sign(n), d |-> 0]
    ELSE LET g == GCD(Abs(n), Abs(d))
         IN  [n |-> Sign(d) * (n \div g), d |-> Abs(d) \div g]

Finite(a) == a.d # 0

IsNaN(a) == a.d = 0 /\ a.n = 0

RMul(a, b) ==
    IF a.d = 0 \/ b.d = 0 THEN [n |-> Sign(a.n) * Sign(b.n), d |-> 0]
    ELSE LET g1 == GCD(Abs(a.n), b.d)
             g2 == GCD(Abs(b.n), a.d)
         IN  R((a.n \div g1) * (b.n \div g2), (a.d \div g2) * (b.d \div g1))

\* a / b for a finite, non-zero divisor b
RDiv(a, b) == RMul(a, [n |-> Sign(b.n) * b.d, d |-> Abs(b.n)])

RAdd(a, b) ==
    LET g == GCD(a.d, b.d)
    IN  R(a.n * (b.d \div g) + b.n * (a.d \div g), (a.d \div g) * b.d)

RSub(a, b) == RAdd(a, [n |-> -b.n, d |-> b.d])

RLess(a, b) ==
    IF IsNaN(a) \/ IsNaN(b) THEN FALSE
    ELSE IF a.d = 0 THEN a.n < 0 /\ a # b
    ELSE IF b.d = 0 THEN b.n > 0
    ELSE LET g1 == GCD(Abs(a.n), Abs(b.n))
             g2 == GCD(a.d, b.d)
             x1 == IF g1 = 0 THEN 1 ELSE g1
         IN  (a.n \div x1) * (b.d \div g2) < (b.n \div x1) * (a.d \div g2)

RLeq(a, b) == (~IsNaN(a) /\ a = b) \/ RLess(a, b)

RMin(a, b) == IF RLess(b, a) THEN b ELSE a

RMax(a, b) == IF RLess(a, b) THEN b ELSE a

I(k) == [n |-> k, d |-> 1]

\* floor of a finite rational
Floor(a) == a.n \div a.d

\* Python's int(): truncation toward zero
Trunc(a) == IF a.n >= 0 THEN a.n \div a.d ELSE -((-a.n) \div a.d)

\* '%.kf' formatting: the value times scale (10^k), rounded to the nearest
\* integer; half-way values go the way up says.
HalfWay(a, scale) ==
    LET y == RMul(a, I(scale)) IN 2 * (y.n - Floor(y) * y.d) = y.d

Fmt(a, scale, up) ==
    LET y == RMul(a, I(scale))
        f == Floor(y)
        twice == 2 * (y.n - f * y.d)
    IN  IF twice < y.d THEN f
        ELSE IF twice > y.d THEN f + 1
        ELSE IF up THEN f + 1 ELSE f

----------------------------------------------------------------------------
(* The method catalogue                                                    *)

MethodNames == {"Whole Blood", "Haemonetics", "Spectra Optia"}

NoParams == [p \in {} |-> <<0, 0>>]

METHODS == [m \in MethodNames |->
    CASE m = "Whole Blood" ->
           [efficiency |-> R(25, 100), volume_factor |-> R(10, 10),
            hct_impact |-> R(2, 10), rbc_contam |-> R(500, 10),
            params |-> NoParams]
      [] m = "Haemonetics" ->
           [efficiency |-> R(85, 100), volume_factor |-> R(3, 10),
            hct_impact |-> R(6, 10), rbc_contam |-> R(150, 10),
            params |-> [flow_rate |-> <<40, 60>>, acd_ratio |-> <<11, 13>>,
                        plasma_removal |-> <<5, 15>>]]
      [] m = "Spectra Optia" ->
           [efficiency |-> R(95, 100), volume_factor |-> R(2, 10),
            hct_impact |-> R(4, 10), rbc_contam |-> R(100, 10),
            params |-> [flow_rate |-> <<50, 70>>, acd_ratio |-> <<12, 14>>,
                        plasma_removal |-> <<5, 10>>]]]

\* the 'cd3_estimate' lambda of each method: base + a*(tlc/15) + b*(lymph/50)
Linear(base, a, b, tlc, lymph) ==
    RAdd(RAdd(I(base), RMul(I(a), RDiv(tlc, I(15)))),
         RMul(I(b), RDiv(I(lymph), I(50))))

cd3_estimate(m, tlc, lymph) ==
    CASE m = "Whole Blood"   -> Linear(60, 10, 5, tlc, lymph)
      [] m = "Haemonetics"   -> Linear(70, 15, 10, tlc, lymph)
      [] m = "Spectra Optia" -> Linear(75, 20, 15, tlc, lymph)

----------------------------------------------------------------------------
(* calculate_dli, statement by statement                                   *)

\* cd3_percent without the upper clamp
cd3_percent_unclamped(m, tlc, lymph) == RMax(cd3_estimate(m, tlc, lymph), I(50))

\* cd3_percent taking a measured percentage, when the caller holds one
cd3_percent_measured(m, tlc, lymph) ==
    IF measured_cd3.n >= 0 THEN measured_cd3
    ELSE RMin(RMax(cd3_estimate(m, tlc, lymph), I(50)), I(95))

\* cd3_percent = min(max(cd3_estimate(tlc, lymph), 50), 95)
cd3_percent_of(m, tlc, lymph) ==
    RMin(RMax(cd3_estimate(m, tlc, lymph), I(50)), I(95))

required_cd3_of(d, weight) == I(d * weight)

\* donor_tlc * 1e3 * (lymph_percent/100) * (cd3_percent/100)
cd3_conc_of(tlc, lymph, cd3) ==
    RMul(RMul(RMul(tlc, I(1000)), RDiv(I(lymph), I(100))), RDiv(cd3, I(100)))

\* 1 - hct_impact * (donor_hct - 40)/40
hct_efficiency_of(m, hct) ==
    RSub(I(1), RDiv(RMul(METHODS[m].hct_impact, RSub(hct, I(40))), I(40)))

\* the divisor of the volume formula
Divisor(m, conc, hcteff) == RMul(RMul(conc, METHODS[m].efficiency), hcteff)

\* required_cd3 / divisor.  On a zero divisor a numpy float64 dividend yields
\* inf, -inf or nan; a Python float dividend raises ZeroDivisionError, which
\* calculate_dli below decides before it uses the quotient.
Quotient(a, b) == IF b.n = 0 THEN [n |-> Sign(a.n), d |-> 0] ELSE RDiv(a, b)

\* (required_cd3 / (cd3_conc * efficiency * hct_efficiency)) * volume_factor / 1e3
volume_of(m, required, conc, hcteff) ==
    RMul(RMul(Quotient(required, Divisor(m, conc, hcteff)),
              METHODS[m].volume_factor), R(1, 1000))

\* rbc_contam * (donor_hct/40) * (volume/0.5)
rbc_contamination_of(m, hct, vol) ==
    RMul(RMul(METHODS[m].rbc_contam, RDiv(hct, I(40))), RMul(vol, I(2)))

base_flow_of(m, lymph) ==
    LET fr == METHODS[m].params.flow_rate
    IN  RAdd(I(fr[1]), RMul(I(fr[2] - fr[1]), RDiv(I(lymph), I(100))))

\* flow_rate with the derating applied to the increment above the minimum only
flow_rate_increment(m, lymph, hct) ==
    LET fr == METHODS[m].params.flow_rate
        derated == RAdd(I(fr[1]),
                        RMul(RMul(I(fr[2] - fr[1]), RDiv(I(lymph), I(100))),
                             RSub(I(1), RDiv(RMul(R(2, 10), RSub(hct, I(40))), I(40)))))
    IN  RMax(I(fr[1]), RMin(I(fr[2]), derated))

\* base_flow * (1 - 0.2*(donor_hct-40)/40), then max(lo, min(hi, .))
flow_rate_of(m, lymph, hct) ==
    LET fr == METHODS[m].params.flow_rate
        derated == RMul(base_flow_of(m, lymph),
                        RSub(I(1), RDiv(RMul(R(2, 10), RSub(hct, I(40))), I(40))))
    IN  RMax(I(fr[1]), RMin(I(fr[2]), derated))

\* int((lo + hi)/2 + (1 if donor_hct > 45 else 0))
acd_ratio_of(m, hct) ==
    LET ar == METHODS[m].params.acd_ratio
    IN  Trunc(RAdd(R(ar[1] + ar[2], 2),
                   I(IF RLess(I(45), hct) THEN 1 ELSE 0)))

\* plasma removal raised by 10 mL instead of 5 for a high hematocrit
plasma_removal_by10(m, hct) ==
    METHODS[m].params.plasma_removal[1] + (IF RLess(I(45), hct) THEN 10 ELSE 0)

\* lo + (5 if donor_hct > 45 else 0)
plasma_removal_of(m, hct) ==
    METHODS[m].params.plasma_removal[1] + (IF RLess(I(45), hct) THEN 5 ELSE 0)

FormattedKeys == {"Flow Rate", "Hct Efficiency", "Estimated CD3%"}

\* The digits the binary rounding error decides: one choice per formatted
\* value that lies exactly half way between two printed values.
Roundings(m, tlc, lymph, hct) ==
    LET open == [k \in FormattedKeys |->
                   CASE k = "Flow Rate" ->
                          m # "Whole Blood" /\ HalfWay(flow_rate_of(m, lymph, hct), 10)
                     [] k = "Hct Efficiency" ->
                          HalfWay(hct_efficiency_of(m, hct), 100)
                     [] k = "Estimated CD3%" ->
                          HalfWay(cd3_percent_of(m, tlc, lymph), 10)]
    IN  {up \in [FormattedKeys -> BOOLEAN] : \A k \in FormattedKeys : up[k] => open[k]}

Raised(e) == [status |-> "raised", error |-> e]

\* The whole function.  up: the open digits of the formatted parameters.
calculate_dli(d, dtype, weight, tlc, lymph, hct, m, up) ==
    LET cd3 == cd3_percent_of(m, tlc, lymph)
        required == required_cd3_of(d, weight)
        conc == cd3_conc_of(tlc, lymph, cd3)
        hcteff == hct_efficiency_of(m, hct)
        vol == volume_of(m, required, conc, hcteff)
        rbc == rbc_contamination_of(m, hct, vol)
        pr == IF m # "Whole Blood"
              THEN [k \in {"Flow Rate", "ACD Ratio", "Plasma Removal",
                           "Hct Efficiency", "Estimated CD3%"} |->
                      CASE k = "Flow Rate" ->
                             Fmt(flow_rate_of(m, lymph, hct), 10, up[k])
                        [] k = "ACD Ratio" -> acd_ratio_of(m, hct)
                        [] k = "Plasma Removal" -> plasma_removal_of(m, hct)
                        [] k = "Hct Efficiency" -> Fmt(hcteff, 100, up[k])
                        [] k = "Estimated CD3%" -> Fmt(cd3, 10, up[k])]
              ELSE [k \in {} |-> 0]
    IN  IF Divisor(m, conc, hcteff).n = 0 /\ dtype = "float"
        THEN Raised("ZeroDivisionError")
        ELSE [status |-> "returned", error |-> "none", volume |-> vol,
              rbc_contamination |-> rbc, params |-> pr, cd3_percent |-> cd3]

----------------------------------------------------------------------------
(* The requests the function is applied to                                 *)

MaxDose == 2
MaxWeight == 1

Doses == 1 .. MaxDose
DoseTypes == {"float", "float64"}
Weights == 1 .. MaxWeight
TlcValues == {R(-1, 1), R(0, 1), R(5, 2), R(8, 1), R(15, 1)}
LymphValues == {0, 10, 30, 50, 100}
HctValues == {R(20, 1), R(40, 1), R(45, 1), R(50, 1), R(70, 1), R(110, 1),
              R(140, 1)}
NoMeasurement == [n |-> -1, d |-> 1]
MeasuredValues == {NoMeasurement, R(70, 1)}

NoResult == [status |-> "none", error |-> "none"]
NoCall == [dose |-> 0, donor_hct |-> I(0), result |-> NoResult]

Init ==
    /\ dose \in Doses
    /\ dose_type \in DoseTypes
    /\ recipient_weight \in Weights
    /\ donor_tlc \in TlcValues
    /\ lymph_percent \in LymphValues
    /\ donor_hct \in HctValues
    /\ method \in MethodNames
    /\ measured_cd3 \in MeasuredValues
    /\ pc = "ready"
    /\ result = NoResult
    /\ prev = NoCall

\* one call of calculate_dli on the request at hand
Calculate ==
    /\ pc = "ready"
    /\ \E up \in Roundings(method, donor_tlc, lymph_percent, donor_hct) :
         result' = calculate_dli(dose, dose_type, recipient_weight, donor_tlc,
                                 lymph_percent, donor_hct, method, up)
    /\ pc' = "done"
    /\ UNCHANGED <<dose, dose_type, recipient_weight, donor_tlc, lymph_percent,
                   donor_hct, method, measured_cd3, prev>>

\* the caller moves to the next point of the dose sweep: the same request
\* with another dose; the result of the call before is kept for comparison
Redose(d) ==
    /\ pc = "done"
    /\ d # dose
    /\ prev' = [dose |-> dose, donor_hct |-> donor_hct, result |-> result]
    /\ dose' = d
    /\ result' = NoResult
    /\ pc' = "ready"
    /\ UNCHANGED <<dose_type, recipient_weight, donor_tlc, lymph_percent,
                   donor_hct, method, measured_cd3>>

\* the caller changes the donor hematocrit of the request
Rehct(h) ==
    /\ pc = "done"
    /\ h # donor_hct
    /\ prev' = [dose |-> dose, donor_hct |-> donor_hct, result |-> result]
    /\ donor_hct' = h
    /\ result' = NoResult
    /\ pc' = "ready"
    /\ UNCHANGED <<dose, dose_type, recipient_weight, donor_tlc, lymph_percent,
                   method, measured_cd3>>

Next ==
    \/ Calculate
    \/ \E d \in Doses : Redose(d)
    \/ \E h \in HctValues : Rehct(h)

Spec == Init /\ [][Next]_vars

----------------------------------------------------------------------------
(* Properties                                                              *)

\* the request is in the declared domains
ValidRequest ==
    /\ dose > 0
    /\ recipient_weight > 0
    /\ RLess(I(0), donor_tlc)
    /\ lymph_percent \in 0 .. 100
    /\ RLeq(I(20), donor_hct) /\ RLeq(donor_hct, I(70))

Returned == pc = "done" /\ result.status = "returned"

HasParams == DOMAIN METHODS[method].params # {}

Between(x, pair) == pair[1] <= x /\ x <= pair[2]

\* the values '%.kf' may print for a
Printed(a, scale) == {Fmt(a, scale, FALSE), Fmt(a, scale, TRUE)}

Derating == RSub(I(1), RDiv(RMul(R(2, 10), RSub(donor_hct, I(40))), I(40)))

Clamp(a, pair) == RMax(I(pair[1]), RMin(I(pair[2]), a))

\* the concentration and the combined efficiency of the current request
Concentration ==
    cd3_conc_of(donor_tlc, lymph_percent,
                cd3_percent_of(method, donor_tlc, lymph_percent))

CombinedEfficiency ==
    RMul(METHODS[method].efficiency, hct_efficiency_of(method, donor_hct))

\* C1: for every valid request, a result that calculate_dli returns has a
\* required volume that is finite and at least 0.
C1_VolumeFiniteNonNegative ==
    (ValidRequest /\ Returned) =>
        Finite(result.volume) /\ RLeq(I(0), result.volume)

\* C2: for every valid request of a method that declares parameter ranges,
\* the returned flow rate, ACD ratio denominator and plasma removal lie in
\* the method's declared inclusive (min, max) ranges, hematocrit adjustment
\* included.
C2_ParametersWithinRanges ==
    (ValidRequest /\ Returned /\ HasParams) =>
        LET ranges == METHODS[method].params
        IN  /\ Between(result.params["Flow Rate"],
                       <<10 * ranges.flow_rate[1], 10 * ranges.flow_rate[2]>>)
            /\ Between(result.params["ACD Ratio"], ranges.acd_ratio)
            /\ Between(result.params["Plasma Removal"], ranges.plasma_removal)

C2_Witness ==
    /\ ValidRequest /\ Returned
    /\ method = "Spectra Optia"
    /\ RLess(I(45), donor_hct)
    /\ result.params["ACD Ratio"] = 14
    /\ result.params["Plasma Removal"] = 10

\* C3: when efficiency * hematocritEfficiency <= 0 (the concentration being
\* positive, so that the concentration test passed) the call fails with a
\* DegenerateEfficiency error and returns no result.
C3_DegenerateEfficiencyFails ==
    (pc = "done" /\ RLess(I(0), Concentration)
        /\ RLeq(CombinedEfficiency, I(0))) =>
        result.status = "raised" /\ result.error = "DegenerateEfficiency"

\* C4: when the effective CD3+ concentration is <= 0 (lymphocyte percent 0
\* or donor TLC 0) the call fails with a
\* DegenerateConcentration error instead of dividing by zero or returning a
\* volume.
C4_DegenerateConcentrationFails ==
    (pc = "done" /\ RLeq(I(0), donor_tlc) /\ lymph_percent \in 0 .. 100
        /\ RLeq(Concentration, I(0))) =>
        result.status = "raised" /\ result.error = "DegenerateConcentration"

\* C5: for every method, donor TLC > 0 and lymphocyte percent in 0..100, the
\* CD3+ percent returned as the fourth result (and reported among the
\* parameters) lies in [50, 95].
C5_Cd3Within50To95 ==
    (Returned /\ RLess(I(0), donor_tlc) /\ lymph_percent \in 0 .. 100) =>
        /\ RLeq(I(50), result.cd3_percent)
        /\ RLeq(result.cd3_percent, I(95))
        /\ HasParams => Between(result.params["Estimated CD3%"], <<500, 950>>)

C5_Witness ==
    /\ Returned /\ ValidRequest
    /\ RLess(I(95), cd3_estimate(method, donor_tlc, lymph_percent))
    /\ result.cd3_percent = I(95)

PrevReturned == prev.result.status = "returned"

\* C7: for a valid request and doses d1 < d2, all else fixed, the required
\* volume at d1 is strictly less than at d2.
C7_VolumeStrictlyIncreasingInDose ==
    (ValidRequest /\ Returned /\ PrevReturned
        /\ prev.donor_hct = donor_hct /\ prev.dose < dose) =>
        RLess(prev.result.volume, result.volume)

\* Where the concentration is positive the volume does grow strictly with
\* the dose: C7 fails only on the unguarded zero concentration.
DoseMonotoneWherePositive ==
    (ValidRequest /\ Returned /\ PrevReturned /\ RLess(I(0), Concentration)
        /\ prev.donor_hct = donor_hct /\ prev.dose < dose) =>
        RLess(prev.result.volume, result.volume)

\* C8: for Haemonetics (hematocrit sensitivity 0.6) and hematocrits
\* 40 <= h1 < h2 <= 70, all else fixed, the hematocrit efficiency at h2 is
\* strictly smaller and the required volume at h2 strictly larger than at h1.
C8_HematocritRaisesVolume ==
    (ValidRequest /\ method = "Haemonetics" /\ Returned /\ PrevReturned
        /\ prev.dose = dose
        /\ RLeq(I(40), prev.donor_hct) /\ RLess(prev.donor_hct, donor_hct)) =>
        /\ RLess(hct_efficiency_of(method, donor_hct),
                 hct_efficiency_of(method, prev.donor_hct))
        /\ RLess(prev.result.volume, result.volume)

\* Where the concentration is positive the volume does grow strictly with
\* the hematocrit: C8 fails only on the unguarded zero concentration.
HematocritMonotoneWherePositive ==
    (ValidRequest /\ method = "Haemonetics" /\ Returned /\ PrevReturned
        /\ RLess(I(0), Concentration) /\ prev.dose = dose
        /\ RLeq(I(40), prev.donor_hct) /\ RLess(prev.donor_hct, donor_hct)) =>
        /\ RLess(hct_efficiency_of(method, donor_hct),
                 hct_efficiency_of(method, prev.donor_hct))
        /\ RLess(prev.result.volume, result.volume)

\* Every valid request with a positive concentration returns a finite,
\* positive volume: C1 fails only on the unguarded zero concentration.
VolumePositiveWherePositive ==
    (ValidRequest /\ pc = "done" /\ RLess(I(0), Concentration)) =>
        /\ result.status = "returned"
        /\ Finite(result.volume) /\ RLess(I(0), result.volume)

\* C9 (as claimed): the recommended flow rate is
\* clamp(lo + (hi - lo) * (lymph/100) * (1 - 0.2*(hct - 40)/40), lo, hi):
\* the derating multiplies only the increment above lo.
C9_FlowDeratesIncrementOnly ==
    (ValidRequest /\ Returned /\ HasParams) =>
        LET fr == METHODS[method].params.flow_rate
            increment == RMul(I(fr[2] - fr[1]), RDiv(I(lymph_percent), I(100)))
        IN  result.params["Flow Rate"] \in
                Printed(Clamp(RAdd(I(fr[1]), RMul(increment, Derating)), fr), 10)

\* C9 (amended): the recommended flow rate is
\* clamp((lo + (hi - lo) * (lymph/100)) * (1 - 0.2*(hct - 40)/40), lo, hi),
\* printed to one decimal: the derating multiplies the whole base flow.
C9_FlowDeratesBaseFlow ==
    (ValidRequest /\ Returned /\ HasParams) =>
        LET fr == METHODS[method].params.flow_rate
            increment == RMul(I(fr[2] - fr[1]), RDiv(I(lymph_percent), I(100)))
        IN  result.params["Flow Rate"] \in
                Printed(Clamp(RMul(RAdd(I(fr[1]), increment), Derating), fr), 10)

C9_Witness ==
    /\ ValidRequest /\ Returned
    /\ method = "Haemonetics"
    /\ lymph_percent = 50
    /\ donor_hct = I(20)
    /\ result.params["Flow Rate"] = 550

\* C10: for every valid request that returns, the RBC contamination equals
\* rbc_contam * (hct/40) * (volume/500) for the volume of the same result.
C10_RbcScaledBy500ml ==
    (ValidRequest /\ Returned) =>
        result.rbc_contamination =
            RMul(RMul(METHODS[method].rbc_contam, RDiv(donor_hct, I(40))),
                 RDiv(result.volume, I(500)))

====
